---- MODULE Spec2Model ----
(***************************************************************************)
(* Typed array copy and array construction of the ART runtime natives:     *)
(* java.lang.System.arraycopy (general and unchecked fast paths) and       *)
(* java.lang.reflect.Array.createObjectArray / createMultiArray.           *)
(*                                                                         *)
(* The heap is a sequence of objects; a reference is an index into it and  *)
(* 0 is the null reference.  One native call runs to completion as one     *)
(* action; the heap before the call is kept in `pre`, the decoded          *)
(* arguments in `call`, and the outcome in `exc`, `ret` and `path`.        *)
(***************************************************************************)
EXTENDS Integers, Sequences, FiniteSets, TLC

VARIABLES pc, heap, pre, call, exc, ret, path, registryCalls, bounds,
          g_bytes_used, g_max_bytes_used, g_total_bytes_used,
          thread, new_bytes_seen, max_values

\* The state of the natives and the state of TrackedAllocators (the
\* counters of one tag, each thread's position in its call, the largest
\* new_bytes any call has computed, and every value g_max_bytes_used has
\* held).
native == <<pc, heap, pre, call, exc, ret, path, registryCalls, bounds>>

tracked == <<g_bytes_used, g_max_bytes_used, g_total_bytes_used,
             thread, new_bytes_seen, max_values>>

vars == <<native, tracked>>

(***************************************************************************)
(* Bounds of the model.                                                    *)
(***************************************************************************)
\* Length of the longest array of the initial heap; positions and counts
\* range over -1..MaxLen.
MaxLen == 5
\* Largest number of dimensions handed to createMultiArray.
MaxDims == 2
\* Largest single dimension / length handed to the construction natives.
MaxDim == 3

(***************************************************************************)
(* Type descriptors (mirror::Class).  A class is a base (a primitive kind  *)
(* or a class name) and an array nesting depth; depth 0 is a non-array.    *)
(***************************************************************************)
PrimitiveKinds ==
  {"kPrimBoolean", "kPrimByte", "kPrimChar", "kPrimShort",
   "kPrimInt", "kPrimFloat", "kPrimLong", "kPrimDouble"}

Class(b, d) == [base |-> b, depth |-> d]

ArrayOf(c) == Class(c.base, c.depth + 1)

GetComponentType(c) == Class(c.base, c.depth - 1)

IsArrayClass(c) == c.depth > 0

IsPrimitive(c) == c.depth = 0 /\ c.base \in PrimitiveKinds

GetPrimitiveType(c) == IF IsPrimitive(c) THEN c.base ELSE "kPrimNot"

ComponentSize(k) ==
  CASE k \in {"kPrimBoolean", "kPrimByte"} -> 1
    [] k \in {"kPrimChar", "kPrimShort"} -> 2
    [] k \in {"kPrimInt", "kPrimFloat"} -> 4
    [] k \in {"kPrimLong", "kPrimDouble"} -> 8
    [] OTHER -> 0

\* Subclass relation of the modelled class hierarchy:
\* Object > Number > Integer, Object > String.
IsSubClass(sub, sup) ==
  \/ sub = sup
  \/ sup = "Object"
  \/ sub = "Integer" /\ sup = "Number"

\* dst.IsAssignableFrom(src): reflexive, transitive, not symmetric; arrays
\* are covariant in a reference component type, every non-primitive type is
\* an Object, primitive types are assignable only to themselves.
RECURSIVE IsAssignableFrom(_, _)
IsAssignableFrom(dst, src) ==
  IF dst = src THEN TRUE
  ELSE IF IsPrimitive(dst) \/ IsPrimitive(src) THEN FALSE
  ELSE IF dst.depth = 0 THEN
    IF src.depth = 0 THEN IsSubClass(src.base, dst.base) ELSE dst.base = "Object"
  ELSE IF src.depth = 0 THEN FALSE
  ELSE IsAssignableFrom(GetComponentType(dst), GetComponentType(src))

(***************************************************************************)
(* Objects and the heap.                                                   *)
(***************************************************************************)
Object(c, e) == [cls |-> c, elems |-> e]

IsArrayInstance(o) == IsArrayClass(o.cls)

GetLength(o) == Len(o.elems)

Refs(h) == 1..Len(h)

\* Element i of a primitive array of the initial heap.
PrimElem(k, i) == IF k = "kPrimBoolean" THEN i % 2 ELSE i

\* Objects 1..3 are scalars (two Integers and a String); the arrays follow:
\* one per primitive kind, a second byte[] and reference arrays whose
\* elements are null or refer to the scalars.
InitHeap ==
  << Object(Class("Integer", 0), <<>>),
     Object(Class("Integer", 0), <<>>),
     Object(Class("String", 0), <<>>),
     Object(Class("kPrimBoolean", 1), [i \in 1..MaxLen |-> PrimElem("kPrimBoolean", i)]),
     Object(Class("kPrimByte", 1), [i \in 1..MaxLen |-> i]),
     Object(Class("kPrimChar", 1), [i \in 1..MaxLen |-> i]),
     Object(Class("kPrimShort", 1), [i \in 1..MaxLen |-> i]),
     Object(Class("kPrimInt", 1), [i \in 1..MaxLen |-> i]),
     Object(Class("kPrimFloat", 1), [i \in 1..MaxLen |-> i]),
     Object(Class("kPrimLong", 1), [i \in 1..MaxLen |-> i]),
     Object(Class("kPrimDouble", 1), [i \in 1..MaxLen |-> i]),
     Object(Class("kPrimByte", 1), [i \in 1..(MaxLen - 1) |-> MaxLen + 1 - i]),
     Object(Class("Object", 1), [i \in 1..MaxLen |-> IF i = 3 THEN 3 ELSE 2 - (i % 2)]),
     Object(Class("Number", 1), [i \in 1..MaxLen |-> IF i = 1 THEN 2 ELSE IF i = 3 THEN 1 ELSE 0]),
     Object(Class("Integer", 1), [i \in 1..(MaxLen - 1) |-> IF i <= 2 THEN 3 - i ELSE 0]),
     Object(Class("Object", 1), [i \in 1..(MaxLen - 1) |-> IF i = 2 THEN 3 ELSE 0]) >>

\* The handles a caller passes: null, a scalar object, or any array.
Handles == {0, 3} \cup {r \in Refs(InitHeap) : IsArrayInstance(InitHeap[r])}

Positions == -1..MaxLen

(***************************************************************************)
(* Exceptions.                                                             *)
(***************************************************************************)
Exception(t, m, w, n, c) == [type |-> t, msg |-> m, who |-> w, nums |-> n, types |-> c]

NoException == Exception("none", "", "", <<>>, <<>>)

ThrowNullPointerException(w) ==
  Exception("NullPointerException", "== null", w, <<>>, <<>>)

ThrowArrayStoreException_NotAnArray(identifier, array) ==
  Exception("ArrayStoreException", "is not an array", identifier, <<>>, <<array.cls>>)

ThrowArrayIndexOutOfBoundsException(srcLength, srcPos, dstLength, dstPos, count) ==
  Exception("ArrayIndexOutOfBoundsException", "src.length srcPos dst.length dstPos length", "",
            <<srcLength, srcPos, dstLength, dstPos, count>>, <<>>)

ThrowArrayStoreException_Incompatible(srcCls, dstCls) ==
  Exception("ArrayStoreException", "Incompatible types", "", <<>>, <<srcCls, dstCls>>)

ThrowArrayStoreException_Element(index, elemCls, dstCls) ==
  Exception("ArrayStoreException", "cannot be stored in destination array", "source",
            <<index>>, <<elemCls, dstCls>>)

ThrowNegativeArraySizeException(length) ==
  Exception("NegativeArraySizeException", "negative size", "", <<length>>, <<>>)

ThrowIllegalArgumentException ==
  Exception("IllegalArgumentException", "empty dimensions", "", <<>>, <<>>)

\* What a native returns to its caller: the heap it leaves, the pending
\* exception, the returned reference and the copy primitive it reached.
Outcome(h, e, r, p) == [heap |-> h, exc |-> e, ret |-> r, path |-> p]

(***************************************************************************)
(* Copy primitives of the array object model (mirror::PrimitiveArray<T>    *)
(* and mirror::ObjectArray<T>).  Positions are 0-based as in the code;     *)
(* element i of an array is elems[i + 1].                                  *)
(***************************************************************************)
Get(h, array, i) == h[array].elems[i + 1]

Set(h, array, i, v) == [h EXCEPT ![array].elems[i + 1] = v]

\* Copies elements srcPos+i .. srcPos+count-1 in ascending order, each read
\* seeing the writes made before it.
RECURSIVE ArrayForwardCopy(_, _, _, _, _, _, _)
ArrayForwardCopy(h, dst, dstPos, src, srcPos, count, i) ==
  IF i >= count THEN h
  ELSE ArrayForwardCopy(Set(h, dst, dstPos + i, Get(h, src, srcPos + i)),
                        dst, dstPos, src, srcPos, count, i + 1)

\* Copies elements srcPos+i-1 .. srcPos in descending order.
RECURSIVE ArrayBackwardCopy(_, _, _, _, _, _, _)
ArrayBackwardCopy(h, dst, dstPos, src, srcPos, count, i) ==
  IF i <= 0 THEN h
  ELSE ArrayBackwardCopy(Set(h, dst, dstPos + i - 1, Get(h, src, srcPos + i - 1)),
                         dst, dstPos, src, srcPos, count, i - 1)

\* Bulk copy that assumes the two ranges do not overlap.
Memcpy(h, dst, dstPos, src, srcPos, count) ==
  ArrayForwardCopy(h, dst, dstPos, src, srcPos, count, 0)

\* Overlap-safe bulk move of count elements: the copy direction is chosen
\* so that no source element is overwritten before it is read.
Memmove(h, dst, dstPos, src, srcPos, count) ==
  IF count = 0 THEN h
  ELSE IF src # dst THEN Memcpy(h, dst, dstPos, src, srcPos, count)
  ELSE IF dstPos < srcPos \/ dstPos - srcPos >= count
    THEN ArrayForwardCopy(h, dst, dstPos, src, srcPos, count, 0)
    ELSE ArrayBackwardCopy(h, dst, dstPos, src, srcPos, count, count)

\* Reference-array move for identical component types: no element check.
AssignableMemmove(h, dst, dstPos, src, srcPos, count) ==
  Memmove(h, dst, dstPos, src, srcPos, count)

\* Reference-array copy for a statically assignable source: no element
\* check, ranges assumed not to overlap.
AssignableMemcpy(h, dst, dstPos, src, srcPos, count) ==
  Memcpy(h, dst, dstPos, src, srcPos, count)

\* The concrete runtime type of element value v is assignable to dstClass;
\* the null reference has no runtime type and is stored unchecked.
ElementAssignable(h, dstClass, v) ==
  v = 0 \/ IsAssignableFrom(dstClass, h[v].cls)

\* Element-wise checked copy: stops at the first element that cannot be
\* stored, keeping the elements copied before it, and throws.
RECURSIVE AssignableCheckingMemcpy(_, _, _, _, _, _, _)
AssignableCheckingMemcpy(h, dst, dstPos, src, srcPos, count, i) ==
  LET dst_class == GetComponentType(h[dst].cls)
      o == Get(h, src, srcPos + i)
  IN IF i >= count THEN Outcome(h, NoException, 0, "AssignableCheckingMemcpy")
     ELSE IF ElementAssignable(h, dst_class, o)
       THEN AssignableCheckingMemcpy(Set(h, dst, dstPos + i, o),
                                     dst, dstPos, src, srcPos, count, i + 1)
       ELSE Outcome(h,
                    ThrowArrayStoreException_Element(srcPos + i, h[o].cls, h[dst].cls),
                    0, "AssignableCheckingMemcpy")

(***************************************************************************)
(* java.lang.System.arraycopy                                              *)
(***************************************************************************)
\* The bounds test without the test of a negative count.
BoundsCheckFails_NoCountTest(srcPos, dstPos, count, srcLength, dstLength) ==
  \/ srcPos < 0
  \/ dstPos < 0
  \/ srcPos > srcLength - count
  \/ dstPos > dstLength - count

\* The bounds test, evaluated left to right with short-circuit.
BoundsCheckFails(srcPos, dstPos, count, srcLength, dstLength) ==
  \/ srcPos < 0
  \/ dstPos < 0
  \/ count < 0
  \/ srcPos > srcLength - count
  \/ dstPos > dstLength - count

(***************************************************************************)
(* The bounds test on jint operands.  A subtraction whose result leaves    *)
(* the signed 32-bit range is undefined behaviour: the test may then come  *)
(* out either way.                                                         *)
(***************************************************************************)
Int32Max == 2147483647

Int32Min == -Int32Max - 1

\* a - b lies outside the signed 32-bit range (decided without leaving it).
SubOverflows(a, b) ==
  \/ b < 0 /\ a > Int32Max + b
  \/ b > 0 /\ a < Int32Min + b

\* a + b lies outside the signed 32-bit range.
AddOverflows(a, b) ==
  \/ b > 0 /\ a > Int32Max - b
  \/ b < 0 /\ a < Int32Min - b

Evaluated(f, o) == [fails |-> f, overflow |-> o]

NotEvaluated == [fails |-> FALSE, overflow |-> FALSE, evaluated |-> FALSE]

\* The outcome of an evaluation that overflowed.
Undefined == {Evaluated(f, TRUE) : f \in BOOLEAN}

\* The bounds test written with sums: pos + count > length.
BoundsCheck32_Sum(srcPos, dstPos, count, srcLength, dstLength) ==
  IF srcPos < 0 \/ dstPos < 0 \/ count < 0 THEN {Evaluated(TRUE, FALSE)}
  ELSE IF AddOverflows(srcPos, count) THEN Undefined
  ELSE IF srcPos + count > srcLength THEN {Evaluated(TRUE, FALSE)}
  ELSE IF AddOverflows(dstPos, count) THEN Undefined
  ELSE {Evaluated(dstPos + count > dstLength, FALSE)}

\* The possible outcomes of the bounds test as coded, its five disjuncts
\* evaluated left to right with short-circuit on 32-bit operands.
BoundsCheck32(srcPos, dstPos, count, srcLength, dstLength) ==
  IF srcPos < 0 \/ dstPos < 0 \/ count < 0 THEN {Evaluated(TRUE, FALSE)}
  ELSE IF SubOverflows(srcLength, count) THEN Undefined
  ELSE IF srcPos > srcLength - count THEN {Evaluated(TRUE, FALSE)}
  ELSE IF SubOverflows(dstLength, count) THEN Undefined
  ELSE {Evaluated(dstPos > dstLength - count, FALSE)}

\* The switch with the non-overlap-assuming copy in place of the move.
TrivialAssignability_Memcpy(h, dstArray, dstPos, srcArray, srcPos, count, dstComponentPrimitiveType) ==
  Outcome(Memcpy(h, dstArray, dstPos, srcArray, srcPos, count), NoException, 0,
          IF dstComponentPrimitiveType = "kPrimNot" THEN "AssignableMemmove" ELSE "Memmove1")

\* The switch over the destination's primitive type when the two component
\* types are identical.
TrivialAssignability(h, dstArray, dstPos, srcArray, srcPos, count, dstComponentPrimitiveType) ==
  CASE dstComponentPrimitiveType = "kPrimVoid" ->
         Outcome(h, Exception("FATAL", "Unreachable, cannot have arrays of type void", "", <<>>, <<>>),
                 0, "none")
    [] dstComponentPrimitiveType \in {"kPrimBoolean", "kPrimByte"} ->
         Outcome(Memmove(h, dstArray, dstPos, srcArray, srcPos, count), NoException, 0, "Memmove1")
    [] dstComponentPrimitiveType \in {"kPrimChar", "kPrimShort"} ->
         Outcome(Memmove(h, dstArray, dstPos, srcArray, srcPos, count), NoException, 0, "Memmove2")
    [] dstComponentPrimitiveType \in {"kPrimInt", "kPrimFloat"} ->
         Outcome(Memmove(h, dstArray, dstPos, srcArray, srcPos, count), NoException, 0, "Memmove4")
    [] dstComponentPrimitiveType \in {"kPrimLong", "kPrimDouble"} ->
         Outcome(Memmove(h, dstArray, dstPos, srcArray, srcPos, count), NoException, 0, "Memmove8")
    [] dstComponentPrimitiveType = "kPrimNot" ->
         Outcome(AssignableMemmove(h, dstArray, dstPos, srcArray, srcPos, count),
                 NoException, 0, "AssignableMemmove")
    [] OTHER ->
         Outcome(h, Exception("FATAL", "Unknown array type", "", <<>>, <<h[srcArray].cls>>),
                 0, "none")

\* Dispatch without the element-wise path: every pair of reference arrays
\* is copied in bulk.
Dispatch_AlwaysBulk(h, srcArray, srcPos, dstArray, dstPos, count) ==
  LET dstComponentType == GetComponentType(h[dstArray].cls)
      srcComponentType == GetComponentType(h[srcArray].cls)
      dstComponentPrimitiveType == GetPrimitiveType(dstComponentType)
  IN IF srcComponentType = dstComponentType
       THEN TrivialAssignability(h, dstArray, dstPos, srcArray, srcPos, count,
                                 dstComponentPrimitiveType)
     ELSE IF dstComponentPrimitiveType # "kPrimNot" \/ IsPrimitive(srcComponentType)
       THEN Outcome(h, ThrowArrayStoreException_Incompatible(h[srcArray].cls, h[dstArray].cls),
                    0, "none")
     ELSE Outcome(AssignableMemcpy(h, dstArray, dstPos, srcArray, srcPos, count),
                  NoException, 0, "AssignableMemcpy")

\* Dispatch that returns at once when there is nothing to copy.
Dispatch_ZeroCountShortcut(h, srcArray, srcPos, dstArray, dstPos, count) ==
  LET dstComponentType == GetComponentType(h[dstArray].cls)
      srcComponentType == GetComponentType(h[srcArray].cls)
      dstComponentPrimitiveType == GetPrimitiveType(dstComponentType)
  IN IF count = 0 THEN Outcome(h, NoException, 0, "none")
     ELSE IF srcComponentType = dstComponentType
       THEN TrivialAssignability(h, dstArray, dstPos, srcArray, srcPos, count,
                                 dstComponentPrimitiveType)
     ELSE IF dstComponentPrimitiveType # "kPrimNot" \/ IsPrimitive(srcComponentType)
       THEN Outcome(h, ThrowArrayStoreException_Incompatible(h[srcArray].cls, h[dstArray].cls),
                    0, "none")
     ELSE IF IsAssignableFrom(dstComponentType, srcComponentType)
       THEN Outcome(AssignableMemcpy(h, dstArray, dstPos, srcArray, srcPos, count),
                    NoException, 0, "AssignableMemcpy")
     ELSE AssignableCheckingMemcpy(h, dstArray, dstPos, srcArray, srcPos, count, 0)

\* Dispatch with the symmetric gate: incompatible only when both component
\* types are primitive.
Dispatch_SymmetricGate(h, srcArray, srcPos, dstArray, dstPos, count) ==
  LET dstComponentType == GetComponentType(h[dstArray].cls)
      srcComponentType == GetComponentType(h[srcArray].cls)
      dstComponentPrimitiveType == GetPrimitiveType(dstComponentType)
  IN IF srcComponentType = dstComponentType
       THEN TrivialAssignability(h, dstArray, dstPos, srcArray, srcPos, count,
                                 dstComponentPrimitiveType)
     ELSE IF dstComponentPrimitiveType # "kPrimNot" /\ IsPrimitive(srcComponentType)
       THEN Outcome(h, ThrowArrayStoreException_Incompatible(h[srcArray].cls, h[dstArray].cls),
                    0, "none")
     ELSE IF IsAssignableFrom(dstComponentType, srcComponentType)
       THEN Outcome(AssignableMemcpy(h, dstArray, dstPos, srcArray, srcPos, count),
                    NoException, 0, "AssignableMemcpy")
     ELSE AssignableCheckingMemcpy(h, dstArray, dstPos, srcArray, srcPos, count, 0)

\* Dispatch without the static assignability test: every pair of reference
\* arrays of different component types is copied element by element.
Dispatch_AlwaysChecking(h, srcArray, srcPos, dstArray, dstPos, count) ==
  LET dstComponentType == GetComponentType(h[dstArray].cls)
      srcComponentType == GetComponentType(h[srcArray].cls)
      dstComponentPrimitiveType == GetPrimitiveType(dstComponentType)
  IN IF srcComponentType = dstComponentType
       THEN TrivialAssignability(h, dstArray, dstPos, srcArray, srcPos, count,
                                 dstComponentPrimitiveType)
     ELSE IF dstComponentPrimitiveType # "kPrimNot" \/ IsPrimitive(srcComponentType)
       THEN Outcome(h, ThrowArrayStoreException_Incompatible(h[srcArray].cls, h[dstArray].cls),
                    0, "none")
     ELSE AssignableCheckingMemcpy(h, dstArray, dstPos, srcArray, srcPos, count, 0)

\* Dispatch whose identical-type branch serves primitive arrays only:
\* reference arrays of one component type go through the assignability
\* test to the bulk copy.
Dispatch_ReferencesByAssignability(h, srcArray, srcPos, dstArray, dstPos, count) ==
  LET dstComponentType == GetComponentType(h[dstArray].cls)
      srcComponentType == GetComponentType(h[srcArray].cls)
      dstComponentPrimitiveType == GetPrimitiveType(dstComponentType)
  IN IF srcComponentType = dstComponentType /\ dstComponentPrimitiveType # "kPrimNot"
       THEN TrivialAssignability(h, dstArray, dstPos, srcArray, srcPos, count,
                                 dstComponentPrimitiveType)
     ELSE IF dstComponentPrimitiveType # "kPrimNot" \/ IsPrimitive(srcComponentType)
       THEN Outcome(h, ThrowArrayStoreException_Incompatible(h[srcArray].cls, h[dstArray].cls),
                    0, "none")
     ELSE IF IsAssignableFrom(dstComponentType, srcComponentType)
       THEN Outcome(AssignableMemcpy(h, dstArray, dstPos, srcArray, srcPos, count),
                    NoException, 0, "AssignableMemcpy")
     ELSE AssignableCheckingMemcpy(h, dstArray, dstPos, srcArray, srcPos, count, 0)

\* Dispatch once both handles are known to be arrays and the bounds hold.
Dispatch(h, srcArray, srcPos, dstArray, dstPos, count) ==
  LET dstComponentType == GetComponentType(h[dstArray].cls)
      srcComponentType == GetComponentType(h[srcArray].cls)
      dstComponentPrimitiveType == GetPrimitiveType(dstComponentType)
  IN IF srcComponentType = dstComponentType
       THEN TrivialAssignability(h, dstArray, dstPos, srcArray, srcPos, count,
                                 dstComponentPrimitiveType)
     ELSE IF dstComponentPrimitiveType # "kPrimNot" \/ IsPrimitive(srcComponentType)
       THEN Outcome(h, ThrowArrayStoreException_Incompatible(h[srcArray].cls, h[dstArray].cls),
                    0, "none")
     ELSE IF IsAssignableFrom(dstComponentType, srcComponentType)
       THEN Outcome(AssignableMemcpy(h, dstArray, dstPos, srcArray, srcPos, count),
                    NoException, 0, "AssignableMemcpy")
     ELSE AssignableCheckingMemcpy(h, dstArray, dstPos, srcArray, srcPos, count, 0)

\* System_arraycopy with the array check of the source made before the
\* null check of the destination.
System_arraycopy_ArrayCheckFirst(h, javaSrc, srcPos, javaDst, dstPos, length) ==
  LET count == length
  IN IF javaSrc = 0 THEN Outcome(h, ThrowNullPointerException("src"), 0, "none")
     ELSE IF ~IsArrayInstance(h[javaSrc])
       THEN Outcome(h, ThrowArrayStoreException_NotAnArray("source", h[javaSrc]), 0, "none")
     ELSE IF javaDst = 0 THEN Outcome(h, ThrowNullPointerException("dst"), 0, "none")
     ELSE IF ~IsArrayInstance(h[javaDst])
       THEN Outcome(h, ThrowArrayStoreException_NotAnArray("destination", h[javaDst]), 0, "none")
     ELSE IF BoundsCheckFails(srcPos, dstPos, count, GetLength(h[javaSrc]), GetLength(h[javaDst]))
       THEN Outcome(h,
                    ThrowArrayIndexOutOfBoundsException(GetLength(h[javaSrc]), srcPos,
                                                        GetLength(h[javaDst]), dstPos, count),
                    0, "none")
     ELSE Dispatch(h, javaSrc, srcPos, javaDst, dstPos, count)

System_arraycopy(h, javaSrc, srcPos, javaDst, dstPos, length) ==
  LET count == length
  IN IF javaSrc = 0 THEN Outcome(h, ThrowNullPointerException("src"), 0, "none")
     ELSE IF javaDst = 0 THEN Outcome(h, ThrowNullPointerException("dst"), 0, "none")
     ELSE IF ~IsArrayInstance(h[javaSrc])
       THEN Outcome(h, ThrowArrayStoreException_NotAnArray("source", h[javaSrc]), 0, "none")
     ELSE IF ~IsArrayInstance(h[javaDst])
       THEN Outcome(h, ThrowArrayStoreException_NotAnArray("destination", h[javaDst]), 0, "none")
     ELSE IF BoundsCheckFails(srcPos, dstPos, count, GetLength(h[javaSrc]), GetLength(h[javaDst]))
       THEN Outcome(h,
                    ThrowArrayIndexOutOfBoundsException(GetLength(h[javaSrc]), srcPos,
                                                        GetLength(h[javaDst]), dstPos, count),
                    0, "none")
     ELSE Dispatch(h, javaSrc, srcPos, javaDst, dstPos, count)

\* The unchecked template with the non-overlap-assuming copy in place of
\* the move.
System_arraycopyTUnchecked_Memcpy(h, kPrimType, javaSrc, srcPos, javaDst, dstPos, count) ==
  Outcome(Memcpy(h, javaDst, dstPos, javaSrc, srcPos, count), NoException, 0,
          CASE ComponentSize(kPrimType) = 1 -> "Memmove1"
            [] ComponentSize(kPrimType) = 2 -> "Memmove2"
            [] ComponentSize(kPrimType) = 4 -> "Memmove4"
            [] OTHER -> "Memmove8")

\* The unchecked template with the roles of the two arrays exchanged in
\* the move: it stores into javaSrc.
System_arraycopyTUnchecked_IntoSrc(h, kPrimType, javaSrc, srcPos, javaDst, dstPos, count) ==
  Outcome(Memmove(h, javaSrc, srcPos, javaDst, dstPos, count), NoException, 0,
          CASE ComponentSize(kPrimType) = 1 -> "Memmove1"
            [] ComponentSize(kPrimType) = 2 -> "Memmove2"
            [] ComponentSize(kPrimType) = 4 -> "Memmove4"
            [] OTHER -> "Memmove8")

\* The template behind the eight arraycopy<T>Unchecked entry points; its
\* preconditions are the caller's (debug assertions only).
System_arraycopyTUnchecked(h, kPrimType, javaSrc, srcPos, javaDst, dstPos, count) ==
  Outcome(Memmove(h, javaDst, dstPos, javaSrc, srcPos, count), NoException, 0,
          CASE ComponentSize(kPrimType) = 1 -> "Memmove1"
            [] ComponentSize(kPrimType) = 2 -> "Memmove2"
            [] ComponentSize(kPrimType) = 4 -> "Memmove4"
            [] OTHER -> "Memmove8")

\* What the debug assertions of the unchecked template state, together
\* with the bounds its trusted caller has validated.
UncheckedPreconditions(h, kPrimType, javaSrc, srcPos, javaDst, dstPos, count) ==
  /\ javaSrc # 0 /\ javaDst # 0
  /\ IsArrayInstance(h[javaSrc]) /\ IsArrayInstance(h[javaDst])
  /\ count >= 0
  /\ h[javaSrc].cls = h[javaDst].cls
  /\ h[javaSrc].cls = Class(kPrimType, 1)
  /\ ~BoundsCheckFails(srcPos, dstPos, count, GetLength(h[javaSrc]), GetLength(h[javaDst]))

(***************************************************************************)
(* java.lang.reflect.Array construction natives.                           *)
(***************************************************************************)
\* What a construction native leaves: as Outcome, with the number of
\* array-type resolutions it asked of the class linker.
Created(h, e, r, n) == [heap |-> h, exc |-> e, ret |-> r, path |-> "none", resolved |-> n]

NullClass == Class("", -1)

\* ClassLinker::FindArrayClass: the array class of an element class, or null
\* with the linker's own exception pending when resolution fails.
FindArrayClass(element_class, registryOk) ==
  IF registryOk THEN ArrayOf(element_class) ELSE NullClass

\* A zero-filled array of the given class and length, appended to the heap;
\* a null reference with the allocator's exception pending when it fails.
Alloc(h, array_class, length, heapOk) ==
  IF heapOk
    THEN [heap |-> Append(h, Object(array_class, [i \in 1..length |-> 0])),
          ref |-> Len(h) + 1]
    ELSE [heap |-> h, ref |-> 0]

\* createObjectArray that tests the length only after resolving the array
\* class.
Array_createObjectArray_LateCheck(h, javaElementClass, length, registryOk, heapOk) ==
  LET array_class == FindArrayClass(javaElementClass, registryOk)
  IN IF array_class = NullClass
       THEN Created(h, Exception("LinkageError", "array class not found", "", <<>>,
                                 <<javaElementClass>>), 0, 1)
     ELSE IF length < 0 THEN Created(h, ThrowNegativeArraySizeException(length), 0, 1)
     ELSE LET new_array == Alloc(h, array_class, length, heapOk)
          IN Created(new_array.heap,
                     IF new_array.ref = 0
                       THEN Exception("OutOfMemoryError", "", "", <<length>>, <<array_class>>)
                       ELSE NoException,
                     new_array.ref, 1)

Array_createObjectArray(h, javaElementClass, length, registryOk, heapOk) ==
  IF length < 0 THEN Created(h, ThrowNegativeArraySizeException(length), 0, 0)
  ELSE LET array_class == FindArrayClass(javaElementClass, registryOk)
       IN IF array_class = NullClass
            THEN Created(h, Exception("LinkageError", "array class not found", "", <<>>,
                                      <<javaElementClass>>), 0, 1)
          ELSE LET new_array == Alloc(h, array_class, length, heapOk)
               IN Created(new_array.heap,
                          IF new_array.ref = 0
                            THEN Exception("OutOfMemoryError", "", "", <<length>>, <<array_class>>)
                            ELSE NoException,
                          new_array.ref, 1)

\* mirror::Array::CreateMultiArray builds the nested arrays outermost
\* first: the array of level k, then a fresh sub-array for each of its
\* slots, down to the innermost level whose elements stay zero-filled.
RECURSIVE RecursiveCreateMultiArray(_, _, _, _)
RECURSIVE FillSubArrays(_, _, _, _, _, _)
RecursiveCreateMultiArray(h, element_class, dimensions, k) ==
  LET array_class == Class(element_class.base,
                           element_class.depth + Len(dimensions) - k + 1)
      new_array == Alloc(h, array_class, dimensions[k], TRUE)
  IN IF k = Len(dimensions) THEN new_array
     ELSE FillSubArrays(new_array.heap, new_array.ref, element_class, dimensions, k, 0)

\* The slot loop that builds one sub-array and stores it in every slot.
FillSubArrays_Shared(h, array, element_class, dimensions, k, i) ==
  IF dimensions[k] = 0 THEN [heap |-> h, ref |-> array]
  ELSE LET sub_array == RecursiveCreateMultiArray(h, element_class, dimensions, k + 1)
       IN [heap |-> [sub_array.heap EXCEPT
                       ![array].elems = [j \in 1..dimensions[k] |-> sub_array.ref]],
           ref |-> array]

FillSubArrays(h, array, element_class, dimensions, k, i) ==
  IF i >= dimensions[k] THEN [heap |-> h, ref |-> array]
  ELSE LET sub_array == RecursiveCreateMultiArray(h, element_class, dimensions, k + 1)
       IN FillSubArrays(Set(sub_array.heap, array, i, sub_array.ref),
                        array, element_class, dimensions, k, i + 1)

CreateMultiArray(h, element_class, dimensions) ==
  IF Len(dimensions) = 0 THEN Created(h, ThrowIllegalArgumentException, 0, 0)
  ELSE IF \E i \in 1..Len(dimensions) : dimensions[i] < 0
    THEN LET i == CHOOSE j \in 1..Len(dimensions) :
                    /\ dimensions[j] < 0
                    /\ \A l \in 1..(j - 1) : dimensions[l] >= 0
         IN Created(h, ThrowNegativeArraySizeException(dimensions[i]), 0, 0)
  ELSE LET new_array == RecursiveCreateMultiArray(h, element_class, dimensions, 1)
       IN Created(new_array.heap, NoException, new_array.ref, 0)

Array_createMultiArray(h, javaElementClass, javaDimArray) ==
  CreateMultiArray(h, javaElementClass, javaDimArray)

(***************************************************************************)
(* TrackedAllocators: the byte counters of one allocator tag, updated by   *)
(* concurrent threads with relaxed atomic operations.                      *)
(***************************************************************************)
NumThreads == 2

\* Sizes a call registers, and the cap on the bytes ever registered.
MaxBytes == 2

MaxTotal == 4

Threads == 1..NumThreads

\* A thread outside RegisterAllocation.
Idle == [pc |-> "idle", bytes |-> 0, new_bytes |-> 0, max_bytes |-> 0]

InitTracked ==
  /\ g_bytes_used = 0
  /\ g_max_bytes_used = 0
  /\ g_total_bytes_used = 0
  /\ thread = [t \in Threads |-> Idle]
  /\ new_bytes_seen = 0
  /\ max_values = {0}

\* A compare-and-exchange that stores without comparing.
CompareExchangeWeak_Store(current, expected, desired) ==
  {[ok |-> TRUE, value |-> desired, expected |-> expected]}

\* compare_exchange_weak: stores desired if the variable holds expected,
\* otherwise reloads expected; it may also fail although they are equal.
CompareExchangeWeak(current, expected, desired) ==
  IF current = expected
    THEN {[ok |-> TRUE, value |-> desired, expected |-> expected],
          [ok |-> FALSE, value |-> current, expected |-> expected]}
    ELSE {[ok |-> FALSE, value |-> current, expected |-> current]}

\* g_total_bytes_used[tag].fetch_add(bytes)
RegisterAllocation_total(t) ==
  /\ thread[t].pc = "idle"
  /\ \E bytes \in 1..MaxBytes :
       /\ g_total_bytes_used + bytes <= MaxTotal
       /\ g_total_bytes_used' = g_total_bytes_used + bytes
       /\ thread' = [thread EXCEPT ![t] = [Idle EXCEPT !.pc = "bytes_used", !.bytes = bytes]]
  /\ UNCHANGED <<native, g_bytes_used, g_max_bytes_used, new_bytes_seen, max_values>>

\* new_bytes = g_bytes_used[tag].fetch_add(bytes) + bytes
RegisterAllocation_bytes(t) ==
  /\ thread[t].pc = "bytes_used"
  /\ LET new_bytes == g_bytes_used + thread[t].bytes
     IN /\ g_bytes_used' = new_bytes
        /\ thread' = [thread EXCEPT ![t].new_bytes = new_bytes, ![t].pc = "load"]
        /\ new_bytes_seen' = IF new_bytes > new_bytes_seen THEN new_bytes ELSE new_bytes_seen
  /\ UNCHANGED <<native, g_max_bytes_used, g_total_bytes_used, max_values>>

\* max_bytes = g_max_bytes_used[tag].load(memory_order_relaxed): any value
\* the counter has held.
RegisterAllocation_load(t) ==
  /\ thread[t].pc = "load"
  /\ \E max_bytes \in max_values :
       thread' = [thread EXCEPT ![t].max_bytes = max_bytes, ![t].pc = "while"]
  /\ UNCHANGED <<native, g_bytes_used, g_max_bytes_used, g_total_bytes_used,
                 new_bytes_seen, max_values>>

\* One evaluation of the loop condition
\* max_bytes < new_bytes && !compare_exchange_weak(max_bytes, new_bytes).
RegisterAllocation_while(t) ==
  /\ thread[t].pc = "while"
  /\ IF ~(thread[t].max_bytes < thread[t].new_bytes)
       THEN /\ thread' = [thread EXCEPT ![t] = Idle]
            /\ UNCHANGED <<g_max_bytes_used, max_values>>
       ELSE \E o \in CompareExchangeWeak(g_max_bytes_used, thread[t].max_bytes,
                                         thread[t].new_bytes) :
              /\ g_max_bytes_used' = o.value
              /\ max_values' = max_values \cup {o.value}
              /\ thread' = [thread EXCEPT ![t] =
                                IF o.ok THEN Idle ELSE [@ EXCEPT !.max_bytes = o.expected]]
  /\ UNCHANGED <<native, g_bytes_used, g_total_bytes_used, new_bytes_seen>>

\* g_bytes_used[tag].fetch_sub(bytes), of bytes that are registered.
RegisterFree(t) ==
  /\ thread[t].pc = "idle"
  /\ \E bytes \in 1..MaxBytes :
       /\ bytes <= g_bytes_used
       /\ g_bytes_used' = g_bytes_used - bytes
  /\ UNCHANGED <<native, g_max_bytes_used, g_total_bytes_used, thread,
                 new_bytes_seen, max_values>>

NextTracked ==
  \E t \in Threads :
    \/ RegisterAllocation_total(t)
    \/ RegisterAllocation_bytes(t)
    \/ RegisterAllocation_load(t)
    \/ RegisterAllocation_while(t)
    \/ RegisterFree(t)

(***************************************************************************)
(* Inputs.                                                                 *)
(***************************************************************************)
\* Element classes handed to createObjectArray (never primitive).
ObjectElementClasses == {Class("Object", 0), Class("Integer", 0), Class("kPrimInt", 1)}

\* Element classes handed to createMultiArray.
MultiElementClasses == {Class("kPrimInt", 0), Class("Object", 0), Class("Integer", 1)}

Dimension == -2..MaxDim

DimensionArrays == UNION {[1..n -> Dimension] : n \in 0..MaxDims}

(***************************************************************************)
(* The state machine: one native call per behaviour, on the initial heap.  *)
(***************************************************************************)
Init ==
  /\ pc = "idle"
  /\ heap = InitHeap
  /\ pre = InitHeap
  /\ call = [op |-> "none"]
  /\ exc = NoException
  /\ ret = 0
  /\ path = "none"
  /\ registryCalls = 0
  /\ bounds = NotEvaluated
  /\ InitTracked

Return(o) ==
  /\ pc' = "done"
  /\ pre' = heap
  /\ heap' = o.heap
  /\ exc' = o.exc
  /\ ret' = o.ret
  /\ path' = o.path
  /\ UNCHANGED <<bounds, tracked>>

Copy ==
  /\ pc = "idle"
  /\ \E src \in Handles, dst \in Handles,
        srcPos \in Positions, dstPos \in Positions, count \in Positions :
       /\ call' = [op |-> "Copy", src |-> src, srcPos |-> srcPos,
                   dst |-> dst, dstPos |-> dstPos, count |-> count]
       /\ Return(System_arraycopy(heap, src, srcPos, dst, dstPos, count))
  /\ UNCHANGED registryCalls

CopyUnchecked ==
  /\ pc = "idle"
  /\ \E kind \in PrimitiveKinds, src \in Handles, dst \in Handles,
        srcPos \in Positions, dstPos \in Positions, count \in Positions :
       /\ UncheckedPreconditions(heap, kind, src, srcPos, dst, dstPos, count)
       /\ call' = [op |-> "CopyUnchecked", kind |-> kind, src |-> src, srcPos |-> srcPos,
                   dst |-> dst, dstPos |-> dstPos, count |-> count]
       /\ Return(System_arraycopyTUnchecked(heap, kind, src, srcPos, dst, dstPos, count))
  /\ UNCHANGED registryCalls

CreateReferenceArray ==
  /\ pc = "idle"
  /\ \E elementClass \in ObjectElementClasses, length \in Dimension,
        registryOk \in BOOLEAN, heapOk \in BOOLEAN :
       LET o == Array_createObjectArray(heap, elementClass, length, registryOk, heapOk)
       IN /\ call' = [op |-> "CreateReferenceArray", elementClass |-> elementClass,
                      length |-> length]
          /\ Return(o)
          /\ registryCalls' = registryCalls + o.resolved

CreateMultiArray_ ==
  /\ pc = "idle"
  /\ \E elementClass \in MultiElementClasses, dimensions \in DimensionArrays :
       LET o == Array_createMultiArray(heap, elementClass, dimensions)
       IN /\ call' = [op |-> "CreateMultiArray", elementClass |-> elementClass,
                      dimensions |-> dimensions]
          /\ Return(o)
          /\ registryCalls' = registryCalls + o.resolved

Next == Copy \/ CopyUnchecked \/ CreateReferenceArray \/ CreateMultiArray_

Spec == Init /\ [][Next]_vars

(***************************************************************************)
(* The bounds test alone, on operands at the edges of the jint range.      *)
(***************************************************************************)
\* Positions and counts: any signed 32-bit value.
Int32Samples == {Int32Min, Int32Min + 1, -2, -1, 0, 1, 2, Int32Max - 1, Int32Max}

\* Array lengths: 0 .. 2^31 - 1.
LengthSamples == {0, 1, 2, Int32Max - 1, Int32Max}

BoundsCheck ==
  /\ pc = "idle"
  /\ \E srcPos \in Int32Samples, dstPos \in Int32Samples, count \in Int32Samples,
        srcLength \in LengthSamples, dstLength \in LengthSamples :
       /\ call' = [op |-> "BoundsCheck", srcPos |-> srcPos, dstPos |-> dstPos,
                   count |-> count, srcLength |-> srcLength, dstLength |-> dstLength]
       /\ \E o \in BoundsCheck32(srcPos, dstPos, count, srcLength, dstLength) :
            bounds' = [fails |-> o.fails, overflow |-> o.overflow, evaluated |-> TRUE]
  /\ pc' = "done"
  /\ UNCHANGED <<heap, pre, exc, ret, path, registryCalls, tracked>>

NextBounds == BoundsCheck

SpecBounds == Init /\ [][NextBounds]_vars

(***************************************************************************)
(* Sequences of native calls on one heap: each call works on the heap the  *)
(* calls before it left.                                                   *)
(***************************************************************************)
SeqHeap ==
  << Object(Class("Integer", 0), <<>>),
     Object(Class("String", 0), <<>>),
     Object(Class("kPrimByte", 1), <<1, 2>>),
     Object(Class("Object", 1), <<1, 2>>) >>

\* The handles a caller holds: null or any array of the heap.
SeqHandles(h) == {0} \cup {r \in Refs(h) : IsArrayInstance(h[r])}

SeqPositions == 0..GetLength(SeqHeap[3])

SeqDimension == -1..GetLength(SeqHeap[3])

SeqDimensionArrays == UNION {[1..n -> SeqDimension] : n \in {0, 1}}

\* The heap has room for the arrays of one more construction call.
HeapHasRoom == Len(heap) = Len(SeqHeap)

InitSeq ==
  /\ pc = "idle"
  /\ heap = SeqHeap
  /\ pre = SeqHeap
  /\ call = [op |-> "none"]
  /\ exc = NoException
  /\ ret = 0
  /\ path = "none"
  /\ registryCalls = 0
  /\ bounds = NotEvaluated
  /\ InitTracked

SeqCopy ==
  /\ pc = "idle"
  /\ \E src \in SeqHandles(heap), dst \in SeqHandles(heap),
        srcPos \in SeqPositions, dstPos \in SeqPositions, count \in SeqPositions :
       /\ call' = [op |-> "Copy", src |-> src, srcPos |-> srcPos,
                   dst |-> dst, dstPos |-> dstPos, count |-> count]
       /\ Return(System_arraycopy(heap, src, srcPos, dst, dstPos, count))
  /\ UNCHANGED registryCalls

SeqCopyUnchecked ==
  /\ pc = "idle"
  /\ \E kind \in PrimitiveKinds, src \in SeqHandles(heap), dst \in SeqHandles(heap),
        srcPos \in SeqPositions, dstPos \in SeqPositions, count \in SeqPositions :
       /\ UncheckedPreconditions(heap, kind, src, srcPos, dst, dstPos, count)
       /\ call' = [op |-> "CopyUnchecked", kind |-> kind, src |-> src, srcPos |-> srcPos,
                   dst |-> dst, dstPos |-> dstPos, count |-> count]
       /\ Return(System_arraycopyTUnchecked(heap, kind, src, srcPos, dst, dstPos, count))
  /\ UNCHANGED registryCalls

SeqCreateReferenceArray ==
  /\ pc = "idle"
  /\ HeapHasRoom
  /\ \E length \in SeqDimension :
       LET o == Array_createObjectArray(heap, Class("Number", 0), length, TRUE, TRUE)
       IN /\ call' = [op |-> "CreateReferenceArray", elementClass |-> Class("Number", 0),
                      length |-> length]
          /\ Return(o)
          /\ registryCalls' = registryCalls + o.resolved

SeqCreateMultiArray ==
  /\ pc = "idle"
  /\ HeapHasRoom
  /\ \E dimensions \in SeqDimensionArrays :
       LET o == Array_createMultiArray(heap, Class("kPrimByte", 0), dimensions)
       IN /\ call' = [op |-> "CreateMultiArray", elementClass |-> Class("kPrimByte", 0),
                      dimensions |-> dimensions]
          /\ Return(o)
          /\ registryCalls' = registryCalls + o.resolved

\* The native has returned; the caller goes on to its next call.
Resume ==
  /\ pc = "done"
  /\ pc' = "idle"
  /\ pre' = heap
  /\ call' = [op |-> "none"]
  /\ exc' = NoException
  /\ ret' = 0
  /\ path' = "none"
  /\ UNCHANGED <<heap, registryCalls, bounds, tracked>>

NextSeq ==
  SeqCopy \/ SeqCopyUnchecked \/ SeqCreateReferenceArray \/ SeqCreateMultiArray \/ Resume

SpecSeq == InitSeq /\ [][NextSeq]_vars

SpecTracked == Init /\ [][NextTracked]_vars

(***************************************************************************)
(* Vocabulary of the properties.                                           *)
(***************************************************************************)
Returned(op) == pc = "done" /\ call.op = op

\* Both handles of the last copy call denote arrays of the heap it ran on.
BothArrays ==
  /\ call.src # 0 /\ call.dst # 0
  /\ IsArrayInstance(pre[call.src]) /\ IsArrayInstance(pre[call.dst])

SrcLen == Len(pre[call.src].elems)

DstLen == Len(pre[call.dst].elems)

\* The bounds of the last copy call, in unbounded integer arithmetic.
InBounds ==
  /\ 0 <= call.srcPos /\ 0 <= call.dstPos /\ 0 <= call.count
  /\ call.srcPos + call.count <= SrcLen
  /\ call.dstPos + call.count <= DstLen

SrcComp == GetComponentType(pre[call.src].cls)

DstComp == GetComponentType(pre[call.dst].cls)

\* The heap in which slots [dstPos, dstPos + n) of the destination hold the
\* prior source elements [srcPos, srcPos + n) and every other slot of every
\* object holds its prior value.
CopiedPrefix(n) ==
  [pre EXCEPT ![call.dst].elems =
     [j \in 1..DstLen |->
        IF call.dstPos < j /\ j <= call.dstPos + n
          THEN pre[call.src].elems[j - call.dstPos + call.srcPos]
          ELSE pre[call.dst].elems[j]]]

\* C1: Copy validates null src, null dst, src not an array, dst not an
\* array and the bounds in this order, reports only the first check that
\* fails, and modifies no element when any of them fails.
C1_ValidationOrder ==
  Returned("Copy") =>
    IF call.src = 0
      THEN exc = ThrowNullPointerException("src") /\ heap = pre
    ELSE IF call.dst = 0
      THEN exc = ThrowNullPointerException("dst") /\ heap = pre
    ELSE IF pre[call.src].cls.depth = 0
      THEN /\ exc.type = "ArrayStoreException" /\ exc.msg = "is not an array"
           /\ exc.who = "source" /\ exc.types = <<pre[call.src].cls>>
           /\ heap = pre
    ELSE IF pre[call.dst].cls.depth = 0
      THEN /\ exc.type = "ArrayStoreException" /\ exc.msg = "is not an array"
           /\ exc.who = "destination" /\ exc.types = <<pre[call.dst].cls>>
           /\ heap = pre
    ELSE IF ~InBounds
      THEN exc.type = "ArrayIndexOutOfBoundsException" /\ heap = pre
    ELSE /\ exc.type \in {"none", "ArrayStoreException"}
         /\ exc.msg # "is not an array"

\* A call that fails three checks at once (null dst, scalar src, negative
\* count) and reports the earliest of them.
C1_Witness ==
  /\ Returned("Copy")
  /\ call.dst = 0 /\ call.src = 3 /\ call.count < 0 /\ call.srcPos < 0
  /\ exc = ThrowNullPointerException("dst")

\* The last call was a copy of zero elements between two arrays at
\* positions within their lengths.
ZeroCountCopy ==
  /\ Returned("Copy") /\ BothArrays
  /\ call.count = 0
  /\ 0 <= call.srcPos /\ call.srcPos <= SrcLen
  /\ 0 <= call.dstPos /\ call.dstPos <= DstLen

\* C2 as stated: a copy of zero elements at valid positions succeeds and
\* mutates nothing, whatever the two component types are.
C2_ZeroCountAlwaysSucceeds ==
  ZeroCountCopy => exc = NoException /\ heap = pre

\* C2 (amended): a copy of zero elements at valid positions mutates nothing;
\* it succeeds when the component types are identical or both are reference
\* types (assignable or not), and fails with the incompatible-types
\* ArrayStoreException when they differ and either one is primitive.
C2_ZeroCount ==
  ZeroCountCopy =>
    /\ heap = pre
    /\ IF SrcComp # DstComp /\ (IsPrimitive(SrcComp) \/ IsPrimitive(DstComp))
         THEN exc = ThrowArrayStoreException_Incompatible(pre[call.src].cls, pre[call.dst].cls)
         ELSE exc = NoException

\* A zero-element copy between reference arrays whose component types are
\* not statically assignable (Object[] into Integer[]) succeeds.
C2_Witness ==
  /\ ZeroCountCopy
  /\ ~IsPrimitive(SrcComp) /\ ~IsPrimitive(DstComp)
  /\ ~IsAssignableFrom(DstComp, SrcComp)
  /\ call.srcPos = SrcLen /\ call.dstPos = DstLen
  /\ exc = NoException /\ heap = pre

\* The first offset in [0, count) whose source element has a concrete
\* runtime type that is not assignable to the destination component type;
\* count when there is none.
FirstUnassignable ==
  LET bad == {i \in 0..(call.count - 1) :
                LET o == pre[call.src].elems[call.srcPos + i + 1]
                IN o # 0 /\ ~IsAssignableFrom(DstComp, pre[o].cls)}
  IN IF bad = {} THEN call.count
     ELSE CHOOSE k \in bad : \A i \in bad : k <= i

\* The last call was an in-bounds copy between reference arrays whose
\* destination component type is not assignable from the source's.
ElementWiseCopy ==
  /\ Returned("Copy") /\ BothArrays /\ InBounds
  /\ ~IsPrimitive(SrcComp) /\ ~IsPrimitive(DstComp)
  /\ SrcComp # DstComp
  /\ ~IsAssignableFrom(DstComp, SrcComp)

\* C3: the element-wise checked copy copies exactly the elements before the
\* first unassignable one, leaves every other slot as it was, and fails with
\* ArrayStoreException iff there is such an element.
C3_PartialCopy ==
  ElementWiseCopy =>
    /\ heap = CopiedPrefix(FirstUnassignable)
    /\ IF FirstUnassignable < call.count
         THEN /\ exc.type = "ArrayStoreException"
              /\ exc.msg = "cannot be stored in destination array"
              /\ exc.nums = <<call.srcPos + FirstUnassignable>>
         ELSE exc = NoException

\* Object[] {1, 2, "x", ..} copied into a Number[]: two elements are copied,
\* the String stops the copy, the slots after it keep their values.
C3_Witness ==
  /\ ElementWiseCopy
  /\ call.srcPos = 0 /\ call.dstPos = 0 /\ call.count >= 4
  /\ DstComp = Class("Number", 0)
  /\ FirstUnassignable = 2
  /\ exc.type = "ArrayStoreException"
  /\ heap # pre
  /\ heap[call.dst].elems[1] = 1 /\ heap[call.dst].elems[2] = 2
  /\ heap[call.dst].elems[3] = pre[call.dst].elems[3]

\* The last call was an in-bounds copy of an array onto itself.
SelfCopy ==
  /\ Returned("Copy") /\ BothArrays /\ InBounds
  /\ call.src = call.dst

\* C4: copying an array onto itself, overlapping or not, leaves what a copy
\* through an independent temporary buffer leaves.
C4_SelfCopyAsIfTemporary ==
  SelfCopy =>
    /\ exc = NoException
    /\ heap = CopiedPrefix(call.count)
    /\ (/\ pre[call.src].elems = <<1, 2, 3, 4, 5>>
        /\ call.srcPos = 1 /\ call.dstPos = 3 /\ call.count = 2)
         => heap[call.dst].elems = <<1, 2, 3, 2, 3>>

\* A self-copy whose destination range starts inside the source range
\* (a forward copy would overwrite unread source elements).
C4_Witness ==
  /\ SelfCopy
  /\ call.srcPos < call.dstPos /\ call.dstPos < call.srcPos + call.count - 1
  /\ pre[call.src].cls = Class("kPrimLong", 1)
  /\ heap # pre

\* C5: a copy between two arrays that violates the bounds fails with
\* ArrayIndexOutOfBoundsException reporting both lengths, both positions
\* and the count, and modifies nothing, whatever the component types are.
C5_BoundsFailure ==
  (Returned("Copy") /\ BothArrays /\ ~InBounds) =>
    /\ exc = ThrowArrayIndexOutOfBoundsException(SrcLen, call.srcPos, DstLen,
                                                 call.dstPos, call.count)
    /\ heap = pre

\* Only the destination bound is violated, between arrays of two different
\* primitive component types.
C5_Witness ==
  /\ Returned("Copy") /\ BothArrays
  /\ IsPrimitive(SrcComp) /\ IsPrimitive(DstComp) /\ SrcComp # DstComp
  /\ 0 <= call.srcPos /\ 0 < call.count /\ 0 <= call.dstPos
  /\ call.srcPos + call.count <= SrcLen
  /\ call.dstPos + call.count > DstLen
  /\ exc.type = "ArrayIndexOutOfBoundsException"
  /\ exc.nums = <<SrcLen, call.srcPos, DstLen, call.dstPos, call.count>>

\* The last call was an in-bounds copy between arrays of different
\* component types of which the destination's is primitive or the
\* source's is primitive.
PrimitiveMismatch ==
  /\ Returned("Copy") /\ BothArrays /\ InBounds
  /\ SrcComp # DstComp
  /\ \/ (DstComp.depth = 0 /\ DstComp.base \in PrimitiveKinds)
     \/ (SrcComp.depth = 0 /\ SrcComp.base \in PrimitiveKinds)

\* C6: different component types with a primitive destination or a
\* primitive source fail with ArrayStoreException naming both array types,
\* modify nothing and reach no copy primitive.
C6_PrimitiveMismatch ==
  PrimitiveMismatch =>
    /\ exc.type = "ArrayStoreException" /\ exc.msg = "Incompatible types"
    /\ exc.types = <<pre[call.src].cls, pre[call.dst].cls>>
    /\ heap = pre
    /\ path = "none"

\* The asymmetric case: a reference source copied into a primitive
\* destination, with elements to copy.
C6_Witness ==
  /\ PrimitiveMismatch
  /\ SrcComp = Class("Object", 0) /\ DstComp = Class("kPrimInt", 0)
  /\ call.count > 0
  /\ exc.type = "ArrayStoreException" /\ exc.msg = "Incompatible types"

\* The last call was an in-bounds copy between reference arrays of
\* different component types, the destination's assignable from the
\* source's.
StaticallyAssignableCopy ==
  /\ Returned("Copy") /\ BothArrays /\ InBounds
  /\ ~IsPrimitive(SrcComp) /\ ~IsPrimitive(DstComp)
  /\ SrcComp # DstComp
  /\ IsAssignableFrom(DstComp, SrcComp)

\* C7: a statically assignable reference copy checks no element, always
\* succeeds and copies all count elements, leaving every other slot alone.
C7_BulkReferenceCopy ==
  StaticallyAssignableCopy =>
    /\ path = "AssignableMemcpy"
    /\ exc = NoException
    /\ \A i \in 0..(call.count - 1) :
         heap[call.dst].elems[call.dstPos + i + 1] = pre[call.src].elems[call.srcPos + i + 1]
    /\ \A j \in 1..DstLen :
         (j <= call.dstPos \/ j > call.dstPos + call.count)
           => heap[call.dst].elems[j] = pre[call.dst].elems[j]
    /\ \A r \in Refs(pre) : r # call.dst => heap[r] = pre[r]
    /\ Len(heap) = Len(pre)

\* Integer[] copied into Number[] at different positions, changing it.
C7_Witness ==
  /\ StaticallyAssignableCopy
  /\ SrcComp = Class("Integer", 0) /\ DstComp = Class("Number", 0)
  /\ call.count >= 2 /\ call.srcPos # call.dstPos
  /\ heap # pre
  /\ exc = NoException

\* What the general copy leaves when given the arguments of the last call.
GeneralCopy ==
  System_arraycopy(pre, call.src, call.srcPos, call.dst, call.dstPos, call.count)

\* C8: an unchecked copy leaves every array as the general copy does on
\* the same arguments, through the same move primitive.
C8_UncheckedAsGeneral ==
  Returned("CopyUnchecked") =>
    /\ heap = GeneralCopy.heap
    /\ exc = GeneralCopy.exc
    /\ path = GeneralCopy.path
    /\ path \in {"Memmove1", "Memmove2", "Memmove4", "Memmove8"}

\* An unchecked copy of an array onto itself whose destination range starts
\* inside the source range.
C8_Witness ==
  /\ Returned("CopyUnchecked")
  /\ call.src = call.dst
  /\ call.srcPos < call.dstPos /\ call.dstPos < call.srcPos + call.count - 1
  /\ call.kind = "kPrimChar"
  /\ heap # pre

\* C9: createObjectArray with a negative length throws
\* NegativeArraySizeException reporting the length, returns null, resolves
\* no array class and allocates nothing.
C9_NegativeLength ==
  [][(pc = "idle" /\ pc' = "done" /\ call'.op = "CreateReferenceArray" /\ call'.length < 0)
       => /\ exc' = ThrowNegativeArraySizeException(call'.length)
          /\ ret' = 0
          /\ registryCalls' = registryCalls
          /\ heap' = heap]_vars

C9_Witness ==
  /\ Returned("CreateReferenceArray")
  /\ call.length = -1
  /\ exc.type = "NegativeArraySizeException" /\ exc.nums = <<-1>>
  /\ ret = 0

\* The last call was createMultiArray with a non-empty sequence of
\* non-negative dimensions.
MultiArrayCreated ==
  /\ Returned("CreateMultiArray")
  /\ Len(call.dimensions) > 0
  /\ \A i \in 1..Len(call.dimensions) : call.dimensions[i] >= 0

\* The arrays allocated by the last call.
Fresh == (Len(pre) + 1)..Len(heap)

\* The nesting level (outermost = 0) of an array of the created tree, read
\* off its class.
LevelOf(r) ==
  Len(call.dimensions) - (heap[r].cls.depth - call.elementClass.depth)

\* C10: createMultiArray returns a fresh array tree: the array at level k
\* has length dimensions[k] and component type elementClass nested
\* len - 1 - k times, every slot above the innermost level holds its own
\* fresh sub-array of the next level, innermost arrays are zero-filled, and
\* the arrays that existed before are untouched.
C10_MultiArrayTree ==
  MultiArrayCreated =>
    LET n == Len(call.dimensions)
    IN /\ exc = NoException
       /\ ret \in Fresh /\ LevelOf(ret) = 0
       /\ \A r \in Refs(pre) : heap[r] = pre[r]
       /\ \A r \in Fresh :
            LET k == LevelOf(r)
            IN /\ k \in 0..(n - 1)
               /\ heap[r].cls.base = call.elementClass.base
               /\ GetComponentType(heap[r].cls) =
                    Class(call.elementClass.base, call.elementClass.depth + n - 1 - k)
               /\ Len(heap[r].elems) = call.dimensions[k + 1]
               /\ \A i \in 1..Len(heap[r].elems) :
                    IF k = n - 1 THEN heap[r].elems[i] = 0
                    ELSE /\ heap[r].elems[i] \in Fresh
                         /\ LevelOf(heap[r].elems[i]) = k + 1
               /\ r # ret =>
                    \E q \in Fresh : \E i \in 1..Len(heap[q].elems) :
                      LevelOf(q) = k - 1 /\ heap[q].elems[i] = r
       /\ \A q1 \in Fresh, q2 \in Fresh :
            \A i1 \in 1..Len(heap[q1].elems), i2 \in 1..Len(heap[q2].elems) :
              (/\ LevelOf(q1) < n - 1 /\ LevelOf(q2) < n - 1
               /\ heap[q1].elems[i1] = heap[q2].elems[i2])
                => (q1 = q2 /\ i1 = i2)
       /\ call.dimensions = <<2, 3>> =>
            /\ Len(heap[ret].elems) = 2
            /\ heap[ret].cls = ArrayOf(ArrayOf(call.elementClass))
            /\ heap[ret].elems[1] # heap[ret].elems[2]
            /\ \A i \in 1..2 :
                 heap[heap[ret].elems[i]] = Object(ArrayOf(call.elementClass), <<0, 0, 0>>)

\* createMultiArray(T, [2, 3]): three fresh arrays, the two sub-arrays
\* distinct.
C10_Witness ==
  /\ MultiArrayCreated
  /\ call.dimensions = <<2, 3>>
  /\ Cardinality(Fresh) = 3
  /\ heap[ret].elems[1] # heap[ret].elems[2]
  /\ heap[ret].elems[2] \in Fresh

\* a + b <= c for non-negative 32-bit a, b, c, in unbounded arithmetic:
\* the sum is formed in two 16-bit halves with carry.
SumAtMost(a, b, c) ==
  LET lo == (a % 65536) + (b % 65536)
      hi == (a \div 65536) + (b \div 65536) + (lo \div 65536)
  IN \/ hi < c \div 65536
     \/ hi = c \div 65536 /\ lo % 65536 <= c % 65536

\* The inputs of the last bounds test satisfy the bounds in unbounded
\* integer arithmetic.
MathInBounds ==
  /\ 0 <= call.srcPos /\ 0 <= call.dstPos /\ 0 <= call.count
  /\ SumAtMost(call.srcPos, call.count, call.srcLength)
  /\ SumAtMost(call.dstPos, call.count, call.dstLength)

\* C11: on signed 32-bit positions and count and lengths in 0..2^31-1 the
\* bounds test as coded evaluates no subtraction that leaves the 32-bit
\* range, and it accepts exactly the inputs that are in bounds in
\* unbounded arithmetic.
C11_BoundsTestExact ==
  Returned("BoundsCheck") =>
    /\ bounds.evaluated
    /\ ~bounds.overflow
    /\ ~bounds.fails <=> MathInBounds

\* A count of 2^31 - 1 with a positive position: pos + count exceeds the
\* 32-bit range, and the test rejects the input without overflow.
C11_Witness ==
  /\ Returned("BoundsCheck")
  /\ call.count = Int32Max /\ call.srcPos = 1 /\ call.dstPos = 0
  /\ call.srcLength = Int32Max /\ call.dstLength = Int32Max
  /\ bounds.fails /\ ~bounds.overflow

\* C12: the bulk reference copy and the element-wise checked copy are
\* never reached with the source and the destination being one array: an
\* in-bounds copy of an array onto itself always takes the move of the
\* identical-component-type branch.
C12_NoAliasedMemcpy ==
  Returned("Copy") =>
    /\ path \in {"AssignableMemcpy", "AssignableCheckingMemcpy"} => call.src # call.dst
    /\ (BothArrays /\ InBounds /\ call.src = call.dst) =>
         /\ SrcComp = DstComp
         /\ path = (IF IsPrimitive(DstComp)
                      THEN CASE ComponentSize(DstComp.base) = 1 -> "Memmove1"
                             [] ComponentSize(DstComp.base) = 2 -> "Memmove2"
                             [] ComponentSize(DstComp.base) = 4 -> "Memmove4"
                             [] OTHER -> "Memmove8"
                      ELSE "AssignableMemmove")

\* A reference array copied onto itself with overlapping ranges.
C12_Witness ==
  /\ Returned("Copy") /\ BothArrays /\ InBounds
  /\ call.src = call.dst
  /\ ~IsPrimitive(DstComp)
  /\ call.count >= 2 /\ call.dstPos = call.srcPos + 1
  /\ path = "AssignableMemmove"
  /\ heap # pre

\* Every array that exists keeps its class and its length.
ArraysKeepShape ==
  /\ Len(heap') >= Len(heap)
  /\ \A r \in Refs(heap) :
       /\ heap'[r].cls = heap[r].cls
       /\ Len(heap'[r].elems) = Len(heap[r].elems)

\* A copy call stores only into dst[dstPos, dstPos + count).
CopyFrame ==
  (pc = "idle" /\ pc' = "done" /\ call'.op \in {"Copy", "CopyUnchecked"}) =>
    /\ Len(heap') = Len(heap)
    /\ \A r \in Refs(heap) : \A j \in 1..Len(heap[r].elems) :
         heap'[r].elems[j] # heap[r].elems[j] =>
           /\ r = call'.dst
           /\ call'.dstPos < j /\ j <= call'.dstPos + call'.count

\* C13: through any sequence of copy and construction calls, failing or
\* not, every existing array keeps its length and component type, and a
\* copy call changes no slot of any array other than the slots
\* dst[dstPos, dstPos + count) of its destination.
C13_FrameEffect == [][ArraysKeepShape /\ CopyFrame]_vars

\* A copy that stored into an array made by an earlier call of the
\* sequence, from a different array.
C13_Witness ==
  /\ pc = "done" /\ call.op \in {"Copy", "CopyUnchecked"}
  /\ Len(pre) > Len(SeqHeap)
  /\ call.dst > Len(SeqHeap)
  /\ call.src # call.dst
  /\ heap # pre

\* Every call that was started has returned.
Quiescent == \A t \in Threads : thread[t].pc = "idle"

\* C14: under every interleaving of RegisterAllocation and RegisterFree
\* calls on one tag, g_max_bytes_used never decreases, and whenever no
\* call is in progress it is at least the largest new_bytes any
\* RegisterAllocation has computed, hence at least g_bytes_used.
C14_MaxNeverLost ==
  [][/\ g_max_bytes_used' >= g_max_bytes_used
     /\ Quiescent' => /\ g_max_bytes_used' >= new_bytes_seen'
                      /\ g_max_bytes_used' >= g_bytes_used']_vars

\* All calls have returned after the maximum was raised twice and some
\* bytes were freed again.
C14_Witness ==
  /\ Quiescent
  /\ Cardinality(max_values) >= 3
  /\ g_max_bytes_used = new_bytes_seen
  /\ 0 < g_bytes_used /\ g_bytes_used < g_max_bytes_used

====
